---- MODULE Spec2Model ----
(***************************************************************************)
(* Model of the LNURL-pay wrapper with POS mode.  The repository holds two *)
(* implementations of the same three public operations:                    *)
(*   part_001 : the POS-aware client with its own HTTP client              *)
(*   part_002 : the variant that always goes through the wrapped library   *)
(* A call is a small state machine: the operation runs up to its next      *)
(* await (a wrapped-library call or an HTTP GET), the environment answers, *)
(* and the operation resumes until it returns or throws.                   *)
(*                                                                         *)
(* Representation of JavaScript values:                                    *)
(*   text      a sequence of tokens; String.includes is "contiguous        *)
(*             subsequence", String.split cuts at a separator token        *)
(*   number    [t |-> "num", m |-> thousandths] (so 1.5 is m = 1500), or   *)
(*             [t |-> "nan"]; every comparison with NaN is false           *)
(*   absent    [t |-> "undef"]                                             *)
(***************************************************************************)
EXTENDS Integers, Sequences, FiniteSets, TLC

VARIABLES impl, op, opts, pc, await, params, http, timer, received, lib, would,
          outcome, arg, given, calls

vars == <<impl, op, opts, pc, await, params, http, timer, received, lib, would,
          outcome, arg, given, calls>>

(***************************************************************************)
(* Bounds                                                                  *)
(***************************************************************************)
MaxAddrLen == 5
MaxInvoiceAddrLen == 3
MaxTokens == 3
MaxCommentLen == 2
MaxMetadataLen == 2

(***************************************************************************)
(* Generic helpers                                                         *)
(***************************************************************************)
SeqsUpTo(S, n) == UNION {[1..k -> S] : k \in 0..n}

\* String.prototype.includes on token sequences
Includes(s, pat) ==
  \E i \in 0..(Len(s) - Len(pat)) : SubSeq(s, i + 1, i + Len(pat)) = pat

\* String.prototype.startsWith
StartsWith(s, pat) == Len(s) >= Len(pat) /\ SubSeq(s, 1, Len(pat)) = pat

\* String.prototype.split(sep) for a one-token separator
RECURSIVE SplitFrom(_, _, _, _)
SplitFrom(s, sep, i, cur) ==
  IF i > Len(s) THEN <<cur>>
  ELSE IF s[i] = sep THEN <<cur>> \o SplitFrom(s, sep, i + 1, <<>>)
  ELSE SplitFrom(s, sep, i + 1, Append(cur, s[i]))

Split(s, sep) == SplitFrom(s, sep, 1, <<>>)

Undef == [t |-> "undef"]
NaN == [t |-> "nan"]
Num(millis) == [t |-> "num", m |-> millis]
Whole(n) == Num(1000 * n)
Sats(n) == Whole(n)
Null == [t |-> "null"]

\* a JavaScript array of values
Arr(v) == [t |-> "list", v |-> v]

\* JavaScript truthiness of the values used as options
Truthy(v) ==
  CASE v.t = "undef" -> FALSE
    [] v.t = "null" -> FALSE
    [] v.t = "nan" -> FALSE
    [] v.t = "num" -> v.m # 0
    [] v.t = "str" -> Len(v.s) > 0
    [] OTHER -> TRUE

\* a < b and a > b on JavaScript numbers (false as soon as one side is NaN)
NumLt(a, b) == a.t = "num" /\ b.t = "num" /\ a.m < b.m
NumGt(a, b) == a.t = "num" /\ b.t = "num" /\ a.m > b.m
NumLe(a, b) == a.t = "num" /\ b.t = "num" /\ a.m <= b.m

\* rendering of a number inside a template string
FracStr(f) ==
  IF f % 100 = 0 THEN ToString(f \div 100)
  ELSE IF f % 10 = 0 THEN (IF f < 100 THEN "0" ELSE "") \o ToString(f \div 10)
  ELSE (IF f < 10 THEN "00" ELSE IF f < 100 THEN "0" ELSE "") \o ToString(f)

NumStr(v) ==
  CASE v.t = "undef" -> "undefined"
    [] v.t = "nan" -> "NaN"
    [] v.t = "num" ->
         IF v.m % 1000 = 0 THEN ToString(v.m \div 1000)
         ELSE IF v.m < 0 THEN "-" \o ToString((0 - v.m) \div 1000) \o "." \o FracStr((0 - v.m) % 1000)
         ELSE ToString(v.m \div 1000) \o "." \o FracStr(v.m % 1000)
    [] OTHER -> "[object]"

(***************************************************************************)
(* Error messages, token by token                                          *)
(***************************************************************************)
MsgAddressRequired == <<"lnUrlOrAddress ", "is required">>
MsgParamsRequired == <<"params ", "is required">>
MsgTokens == <<"tokens ", "must be", " a positive integer">>
MsgCommentString == <<"comment ", "must be", " a string">>
MsgInvalidAddress == <<"Invalid", " Lightning address", " format">>
MsgAmountTooSmall(min) == <<"Amount ", "too small", ". Minimum: ", NumStr(min), " sats">>
MsgAmountTooLarge(max) == <<"Amount ", "too large", ". Maximum: ", NumStr(max), " sats">>
MsgCommentTooLong(limit) == <<"Comment ", "too long", ". Maximum: ", NumStr(limit), " characters">>

PatInvalidLightningAddress == <<"Invalid", " Lightning address">>
PatAmountTooSmall == <<"Amount ", "too small">>
PatAmountTooLarge == <<"Amount ", "too large">>
PatCommentTooLong == <<"Comment ", "too long">>

Ok(v) == [kind |-> "ok", val |-> v, msg |-> <<>>]
Err(m) == [kind |-> "error", val |-> Undef, msg |-> m]
Pending == [kind |-> "pending", val |-> Undef, msg |-> <<>>]

(***************************************************************************)
(* Inputs of the callers                                                   *)
(***************************************************************************)
AddrAlphabet == {"u", "@", "."}

\* lnUrlOrAddress: a text; the empty text also stands for an absent field
\* (both are falsy and take the same branch)
Addresses == SeqsUpTo(AddrAlphabet, MaxAddrLen)
InvoiceAddresses == SeqsUpTo(AddrAlphabet, MaxInvoiceAddrLen)

Str(s) == [t |-> "str", s |-> s]
Other == [t |-> "other"]

\* tokens: absent, a numeric text, NaN, and numbers in steps of one half
TokenValues ==
  {Undef, NaN, Str(<<"2">>)} \cup {Num(500 * k) : k \in (0 - 2)..(2 * MaxTokens)}

\* comment: absent, a text, or a truthy value that is not a text
CommentAlphabet == {"a", " "}
LongComment == Str([i \in 1..145 |-> "a"])
CommentValues ==
  {Undef, Other, LongComment} \cup {Str(s) : s \in SeqsUpTo(CommentAlphabet, MaxCommentLen)}

BringinCallback == <<"https://", "bringin.xyz", "/cb">>
OtherCallback == <<"https://", "pay.example", "/cb">>
Callbacks == {BringinCallback, OtherCallback}

\* a callback of the provider that has a query of its own
QueryCallback == <<"https://", "bringin.xyz", "/cb", "?id=", "1">>
ProviderCallbacks == Callbacks \cup {QueryCallback}

\* bounds as they may stand in a params record: whole sats, fractional sats, NaN
BoundValues == {Sats(1), Num(1500), Sats(2), NaN}
CommentAllowedValues == {Num(0), Sats(1), Undef}

RawDataValues == {Undef, [t |-> "obj", status |-> "OK"], [t |-> "obj", status |-> "ERROR"]}

\* fetchGet (given or not) and timeout in milliseconds (absent, five seconds,
\* zero) as a caller may configure them
TransportValues ==
  { [fetchGet |-> FALSE, timeout |-> Undef],
    [fetchGet |-> TRUE, timeout |-> Whole(5000)],
    [fetchGet |-> FALSE, timeout |-> Whole(0)] }

\* requestInvoiceWithServiceParams takes a timeout and no fetchGet
WspTimeoutValues == {Undef, Whole(5000)}

\* content types as texts that start with their major type
TextPlain == [t |-> "str", s |-> <<"text/plain">>]
ImagePng == [t |-> "str", s |-> <<"image/", "png;base64">>]
ImageJpeg == [t |-> "str", s |-> <<"image/", "jpeg;base64">>]
ImageGif == [t |-> "str", s |-> <<"image/", "gif;base64">>]

\* what a caller may hand to parseDescription and extractImage: lists of
\* [type, payload] entries, of entries without payload, of empty entries, of
\* entries whose type is not a text and of entries that are not lists, and
\* values that are not lists at all
EntryTypes == {TextPlain, ImagePng, ImageGif, Null}
Payloads == {Str(<<"A">>), Str(<<"B">>)}
MetadataEntries ==
  {Arr(<<ty, pl>>) : ty \in EntryTypes, pl \in Payloads}
    \cup {Arr(<<ty>>) : ty \in EntryTypes}
    \cup {Arr(<<>>), Null, TextPlain}
\* a structure that contains itself: the array a = [a], the object o.o = o
\* (for the list helpers the array a = [a] holds no [type, payload] entry)
CyclicArray == [t |-> "cyclic", array |-> TRUE]
CyclicObject == [t |-> "cyclic", array |-> FALSE]

MetadataInputs ==
  {Undef, Null, TextPlain, [t |-> "obj"], CyclicArray, CyclicObject}
    \cup {Arr(l) : l \in SeqsUpTo(MetadataEntries, MaxMetadataLen)}

\* the params records a caller may hand to requestInvoiceWithServiceParams
ParamsValues ==
  {Undef} \cup
  [t : {"obj"}, callback : ProviderCallbacks, min : BoundValues, max : BoundValues,
   commentAllowed : CommentAllowedValues, rawData : RawDataValues]

(***************************************************************************)
(* Answers of the environment                                              *)
(***************************************************************************)
\* what httpClient.get throws besides the timeout: HTTP status, network failure
HttpStatusFailure == <<"HTTP ", "500", ": ", "Internal Server Error">>
NetworkFailure == <<"fetch failed">>
HttpFailures == {HttpStatusFailure, NetworkFailure}

\* provider-supplied reason texts; the empty text stands for no reason
Reasons ==
  { <<>>, <<"Route not found">>, <<"Invalid", " Lightning address">>,
    <<"Amount ", "too small">> }

\* provider bounds in millisatoshis: 1000, 1500, 2000 or absent
MilliValues == {Whole(1000), Whole(1500), Whole(2000), Undef}

\* metadata of a discovery response: absent, the JSON text of a list, or a
\* text that is not JSON
MetadataValues ==
  { Undef,
    [t |-> "str", v |-> << Arr(<<TextPlain, [t |-> "str", s |-> <<"Coffee">>]>>) >>],
    [t |-> "badstr"] }

DiscoveryData ==
  [status : {"ERROR", "none"}, reason : Reasons, callback : {OtherCallback},
   minSendable : {Undef}, maxSendable : {Undef}, metadata : {Undef},
   commentAllowed : {Undef}]
  \cup
  [status : {"OK"}, reason : {<<>>}, callback : ProviderCallbacks,
   minSendable : MilliValues, maxSendable : MilliValues,
   metadata : MetadataValues, commentAllowed : {Undef, Sats(1)}]

InvoiceData ==
  [status : {"ERROR", "none"}, reason : Reasons, pr : {Undef},
   successAction : {Undef}]
  \cup
  [status : {"OK"}, reason : {<<>>}, pr : {Undef, Str(<<"lnbc1">>)},
   successAction : {Undef, [t |-> "obj", tag |-> "message"]}]

Thrown(m) == [kind |-> "throw", msg |-> m, data |-> Undef]
Data(d) == [kind |-> "data", msg |-> <<>>, data |-> d]

DiscoveryAnswers == {Thrown(m) : m \in HttpFailures} \cup {Data(d) : d \in DiscoveryData}
InvoiceAnswers == {Thrown(m) : m \in HttpFailures} \cup {Data(d) : d \in InvoiceData}

\* the wrapped library: its own error texts and its own results
LibErrors(fn) ==
  IF fn = "requestPayServiceParams"
  THEN { <<"Invalid", " lnUrlOrAddress">>, <<"Network Error">> }
  ELSE { <<"Invalid", " amount">>, <<"Network Error">> }

LibParams ==
  [t : {"obj"}, callback : Callbacks, min : {Sats(2)}, max : {Sats(3)},
   commentAllowed : {Num(0)}, rawData : {[t |-> "obj", status |-> "none"]},
   origin : {"lnurl-pay"}]

LibInvoice ==
  [t |-> "obj", invoice |-> Str(<<"lnbc-lib">>), successAction |-> Null,
   rawData |-> [t |-> "obj", status |-> "none"], origin |-> "lnurl-pay"]

LibResults(fn) ==
  IF fn = "requestPayServiceParams" THEN LibParams ELSE {LibInvoice}

\* what the wrapped library needs at least before it can succeed: an address
\* or a params record, and an amount that is positive after coercion and,
\* when the bounds are at hand, not outside them
LibMayAccept(fn, o) ==
  /\ fn # "requestInvoiceWithServiceParams" => Len(o.lnUrlOrAddress) > 0
  /\ fn = "requestInvoiceWithServiceParams" =>
       /\ o.params.t = "obj"
       /\ o.tokens.t = "num" =>
            ~NumLt(o.tokens, o.params.min) /\ ~NumGt(o.tokens, o.params.max)
  /\ fn # "requestPayServiceParams" =>
       \/ o.tokens.t = "num" /\ o.tokens.m > 0
       \/ o.tokens.t = "str"

LibAnswers(fn, o) ==
  {Err(m) : m \in LibErrors(fn)} \cup
  (IF LibMayAccept(fn, o) THEN {Ok(r) : r \in LibResults(fn)} ELSE {})


(***************************************************************************)
(* part_001: validators and pure helpers                                   *)
(***************************************************************************)
DefaultTimeout == 30000

isValidLightningAddress(address) ==
  LET parts == Split(address, "@") IN
  /\ Len(parts) = 2
  /\ Len(parts[1]) > 0
  /\ Len(parts[2]) > 0
  /\ Includes(parts[2], <<".">>)

\* variant: zero is let through (amount >= 0)
isValidAmount_zero(amount) ==
  /\ amount.t \in {"num", "nan"}
  /\ NumLe(Num(0), amount)
  /\ amount.m % 1000 = 0

\* variant: the whole-number test is missing
isValidAmount_anyPositive(amount) ==
  /\ amount.t \in {"num", "nan"}
  /\ NumGt(amount, Num(0))

\* typeof amount === "number" && amount > 0 && Number.isInteger(amount)
isValidAmount(amount) ==
  /\ amount.t \in {"num", "nan"}
  /\ NumGt(amount, Num(0))
  /\ amount.m % 1000 = 0

\* variant: the length of the comment is not compared with the limit
isValidComment_noLimit(comment, maxLength) ==
  IF ~Truthy(comment) THEN TRUE
  ELSE comment.t = "str"

isValidComment(comment, maxLength) ==
  IF ~Truthy(comment) THEN TRUE
  ELSE /\ comment.t = "str"
       /\ NumLe(Whole(Len(comment.s)), maxLength)

\* parseInt on a number or an absent value
parseInt(v) ==
  IF v.t = "num" THEN Whole(v.m \div 1000) ELSE NaN

\* x / 1000
DivideBy1000(v) ==
  IF v.t = "num" THEN Num(v.m \div 1000) ELSE NaN

\* x * 1000
TimesThousand(v) == Num(v.m * 1000)

encodeURIComponent(s) ==
  [i \in 1..Len(s) |-> IF s[i] = " " THEN "%20" ELSE s[i]]

\* JSON.parse of the metadata text: the list it encodes, or a SyntaxError
JsonParse(md) ==
  IF md.t = "str" THEN Data([t |-> "list", v |-> md.v])
  ELSE Thrown(<<"Unexpected token">>)

\* Array.isArray
IsArray(v) == v.t = "list"

\* item[k - 1] of an array: undefined past its end
Element(item, k) == IF k <= Len(item.v) THEN item.v[k] ELSE Undef

\* metadata.find(item => Array.isArray(item) && item[0] is one of types):
\* the first such entry, undefined when there is none
RECURSIVE FindEntry(_, _, _)
FindEntry(list, i, types) ==
  IF i > Len(list) THEN Undef
  ELSE IF IsArray(list[i]) /\ Element(list[i], 1) \in types THEN list[i]
  ELSE FindEntry(list, i + 1, types)

\* variant: an image entry is taken for the description as well
parseDescription_anyType(metadata) ==
  IF ~IsArray(metadata) THEN [t |-> "str", s |-> <<"Payment">>]
  ELSE LET textPlain == FindEntry(metadata.v, 1, {TextPlain, ImagePng, ImageJpeg}) IN
       IF textPlain # Undef THEN Element(textPlain, 2)
       ELSE [t |-> "str", s |-> <<"Payment">>]

parseDescription(metadata) ==
  IF ~IsArray(metadata) THEN [t |-> "str", s |-> <<"Payment">>]
  ELSE LET textPlain == FindEntry(metadata.v, 1, {TextPlain}) IN
       IF textPlain # Undef THEN Element(textPlain, 2)
       ELSE [t |-> "str", s |-> <<"Payment">>]

extractImage(metadata) ==
  IF ~IsArray(metadata) THEN [t |-> "str", s |-> <<>>]
  ELSE LET image == FindEntry(metadata.v, 1, {ImagePng, ImageJpeg}) IN
       IF image # Undef THEN Element(image, 2) ELSE [t |-> "str", s |-> <<>>]

\* sha256(...).digest("hex").substring(0, 32): the digest is kept symbolic
Sha256Hex32(text) == [t |-> "digest", alg |-> "sha256", input |-> text, hexLen |-> 32]

\* JSON.stringify: the JSON text of a list, of null and of a plain object,
\* undefined for undefined, a TypeError for a cyclic structure
JsonStringify(v) ==
  CASE v.t = "list" -> Data([t |-> "str", v |-> v.v])
    [] v.t = "null" -> Data([t |-> "str", s |-> <<"null">>])
    [] v.t = "obj" -> Data([t |-> "str", s |-> <<"{}">>])
    [] v.t = "cyclic" -> Thrown(<<"Converting circular structure to JSON">>)
    [] OTHER -> Data(Undef)

\* hash.update(metadataStr) raises for anything but a text; the catch block
\* then hashes the empty text
calculateMetadataHash(metadata) ==
  LET metadataStr == IF metadata.t \in {"str", "badstr"} THEN Data(metadata)
                     ELSE JsonStringify(metadata)
  IN IF metadataStr.kind = "throw" THEN Sha256Hex32([t |-> "str", s |-> <<>>])
     ELSE IF metadataStr.data.t \notin {"str", "badstr"}
     THEN Sha256Hex32([t |-> "str", s |-> <<>>])
     ELSE Sha256Hex32(metadataStr.data)

\* rawData.status === "OK" && callback.includes("bringin.xyz")
\* variant: the status of the raw response is not looked at
IsPosParams_anyStatus(p) ==
  /\ Truthy(p.rawData)
  /\ Includes(p.callback, <<"bringin.xyz">>)

IsPosParams(p) ==
  /\ Truthy(p.rawData)
  /\ p.rawData.status = "OK"
  /\ Includes(p.callback, <<"bringin.xyz">>)

(***************************************************************************)
(* part_001: requestPayServiceParams, POS branch                           *)
(***************************************************************************)
Get(url) == [kind |-> "get", url |-> url, msg |-> <<>>]
Throw(m) == [kind |-> "throw", url |-> <<>>, msg |-> m]

\* the catch block of requestPayServiceParams
PspCatch(msg) ==
  IF Includes(msg, PatInvalidLightningAddress) THEN Err(msg)
  ELSE Err(<<"Failed to get POS service params: ">> \o msg)

\* the try block up to the await: split the address, build the discovery URL
PspDiscovery(address) ==
  LET parts == Split(address, "@")
      username == parts[1]
      domain == parts[2]
  IN IF Len(username) = 0 \/ Len(domain) = 0 THEN Throw(MsgInvalidAddress)
     ELSE Get(<<"https://">> \o domain \o <<"/.well-known/lnurlp/">> \o username
              \o <<"?pos=true">>)

\* variant: only an explicit ERROR status is refused
PspRecord_onlyError(address, data) ==
  LET parsed == IF data.metadata.t \in {"str", "badstr"}
                THEN JsonParse(data.metadata) ELSE Data(data.metadata)
      metadata == parsed.data
  IN IF data.status = "ERROR"
     THEN PspCatch(<<"Service error: ">> \o
                   (IF Len(data.reason) > 0 THEN data.reason ELSE <<"Invalid response">>))
     ELSE IF parsed.kind = "throw" THEN PspCatch(parsed.msg)
     ELSE Ok([t |-> "obj",
              callback |-> data.callback,
              fixed |-> FALSE,
              min |-> DivideBy1000(parseInt(data.minSendable)),
              max |-> DivideBy1000(parseInt(data.maxSendable)),
              domain |-> Split(address, "@")[2],
              metadata |-> metadata,
              metadataHash |-> calculateMetadataHash(data.metadata),
              identifier |-> address,
              description |-> parseDescription(metadata),
              image |-> extractImage(metadata),
              commentAllowed |-> IF Truthy(data.commentAllowed)
                                 THEN data.commentAllowed ELSE Num(0),
              rawData |-> [t |-> "obj", status |-> data.status, data |-> data]])

\* the try block after the await
PspRecord(address, data) ==
  LET parsed == IF data.metadata.t \in {"str", "badstr"}
                THEN JsonParse(data.metadata) ELSE Data(data.metadata)
      metadata == parsed.data
  IN IF data.status # "OK"
     THEN PspCatch(<<"Service error: ">> \o
                   (IF Len(data.reason) > 0 THEN data.reason ELSE <<"Invalid response">>))
     ELSE IF parsed.kind = "throw" THEN PspCatch(parsed.msg)
     ELSE Ok([t |-> "obj",
              callback |-> data.callback,
              fixed |-> FALSE,
              min |-> DivideBy1000(parseInt(data.minSendable)),
              max |-> DivideBy1000(parseInt(data.maxSendable)),
              domain |-> Split(address, "@")[2],
              metadata |-> metadata,
              metadataHash |-> calculateMetadataHash(data.metadata),
              identifier |-> address,
              description |-> parseDescription(metadata),
              image |-> extractImage(metadata),
              commentAllowed |-> IF Truthy(data.commentAllowed)
                                 THEN data.commentAllowed ELSE Num(0),
              rawData |-> [t |-> "obj", status |-> data.status, data |-> data]])

PspResume(address, answer) ==
  IF answer.kind = "throw" THEN PspCatch(answer.msg)
  ELSE PspRecord(address, answer.data)


(***************************************************************************)
(* Options of the three public operations                                  *)
(***************************************************************************)
Options(address, tokens, comment, posMode, p) ==
  [lnUrlOrAddress |-> address, tokens |-> tokens, comment |-> comment,
   posMode |-> posMode, params |-> p, fetchGet |-> FALSE, timeout |-> Undef]

\* the same options with the caller's fetchGet (given or not) and timeout
WithTransport(o, fetchGet, timeout) ==
  [o EXCEPT !.fetchGet = fetchGet, !.timeout = timeout]

PspOptions ==
  {WithTransport(Options(a, Undef, Undef, pm, Undef), tr.fetchGet, tr.timeout) :
     a \in Addresses, pm \in BOOLEAN, tr \in TransportValues}

InvoiceOptions ==
  {WithTransport(Options(a, tk, c, pm, Undef), tr.fetchGet, tr.timeout) :
     a \in InvoiceAddresses, tk \in TokenValues, c \in CommentValues,
     pm \in BOOLEAN, tr \in TransportValues}

WspOptions ==
  {WithTransport(Options(<<>>, tk, c, FALSE, p), FALSE, tm) :
     tk \in TokenValues, c \in CommentValues, p \in ParamsValues,
     tm \in WspTimeoutValues}

(***************************************************************************)
(* Steps shared by the operations                                          *)
(***************************************************************************)
\* const { lnUrlOrAddress, ..., timeout = 30000 } = options binds local
\* names; nothing is assigned to the options object, which is afterwards what
\* it was (variant: the default timeout is written back into the object)
AfterDestructuring_defaultsWritten(o) ==
  [o EXCEPT !.timeout = IF o.timeout = Undef THEN Whole(DefaultTimeout) ELSE o.timeout]

AfterDestructuring(o) == o

\* two callers of httpClient.get
CallIds == {1, 2}

\* the server never answers the request
NoAnswer == [kind |-> "none", msg |-> <<>>, data |-> Undef]

\* a call of httpClient.get not yet made
NoCall ==
  [phase |-> "idle", timeout |-> Undef, fate |-> NoAnswer, timer |-> "none",
   aborted |-> FALSE, result |-> Pending]

\* no httpClient.get call of the two-call view is under way
NoCalls == [c \in CallIds |-> NoCall]

\* a call starts (calls share no state, so one call is followed from its
\* start to its end); the answer the wrapped library has for the caller's own
\* options is fixed for the duration of the call
Begin(i, name, o) ==
  /\ impl' = i
  /\ op' = name
  /\ given' = o
  /\ opts' = AfterDestructuring(o)
  /\ received' = <<>>
  /\ would' \in LibAnswers(name, o)
  /\ UNCHANGED <<arg, calls>>

Finish(out) ==
  /\ pc' = "done"
  /\ await' = "none"
  /\ timer' = "none"
  /\ outcome' = out

\* const { timeout = 30000 } = options
TimeoutOption(o) ==
  IF o.timeout = Undef THEN Whole(DefaultTimeout) ELSE o.timeout

\* httpClient.get: const timeout = options.timeout || 30000
ClientTimeout(t) == IF Truthy(t) THEN t ELSE Whole(DefaultTimeout)

\* variant: the request is sent a second time
AwaitHttp_resend(tag, log, url, timeout) ==
  /\ pc' = "http"
  /\ await' = tag
  /\ http' = Append(Append(log, [url |-> url, timeout |-> timeout, via |-> "httpClient"]),
                    [url |-> url, timeout |-> timeout, via |-> "httpClient"])
  /\ timer' = "armed"
  /\ outcome' = Pending

\* await httpClient.get(url, { timeout }): the request goes out through the
\* built-in client and its timer is armed
AwaitHttp(tag, log, url, timeout) ==
  /\ pc' = "http"
  /\ await' = tag
  /\ http' = Append(log, [url |-> url, timeout |-> timeout, via |-> "httpClient"])
  /\ timer' = "armed"
  /\ outcome' = Pending

\* await lnurlPay.<fn>(args); same = the caller's own options object is passed
AwaitLib(tag, log, fn, args, same) ==
  /\ pc' = "lib"
  /\ await' = tag
  /\ lib' = Append(log, [fn |-> fn, args |-> args, same |-> same])
  /\ timer' = "none"
  /\ outcome' = Pending

(***************************************************************************)
(* part_001: the three public operations up to their first await           *)
(***************************************************************************)
requestPayServiceParams ==
  /\ pc = "idle"
  /\ \E o \in PspOptions :
    /\ Begin("part_001", "requestPayServiceParams", o)
    /\ params' = Undef
    /\ IF Len(o.lnUrlOrAddress) = 0
       THEN Finish(Err(MsgAddressRequired)) /\ http' = <<>> /\ lib' = <<>>
       ELSE IF ~o.posMode \/ ~Includes(o.lnUrlOrAddress, <<"@">>)
       THEN AwaitLib("psp_lib", <<>>, "requestPayServiceParams", o, TRUE) /\ http' = <<>>
       ELSE LET step == PspDiscovery(o.lnUrlOrAddress) IN
            IF step.kind = "throw"
            THEN Finish(PspCatch(step.msg)) /\ http' = <<>> /\ lib' = <<>>
            ELSE AwaitHttp("psp_discovery", <<>>, step.url, TimeoutOption(o)) /\ lib' = <<>>

\* variant: the minimum itself is refused (tokens <= params.min)
BoundsCheck_minExclusive(p, tokens, comment) ==
  IF NumLe(tokens, p.min) THEN Throw(MsgAmountTooSmall(p.min))
  ELSE IF NumGt(tokens, p.max) THEN Throw(MsgAmountTooLarge(p.max))
  ELSE IF ~isValidComment(comment, p.commentAllowed)
  THEN Throw(MsgCommentTooLong(p.commentAllowed))
  ELSE Get(p.callback \o <<"?amount=", NumStr(TimesThousand(tokens))>>
           \o (IF Truthy(comment)
               THEN <<"&comment=">> \o encodeURIComponent(comment.s) ELSE <<>>))

\* the amount and comment checks of the POS path
BoundsCheck(p, tokens, comment) ==
  IF NumLt(tokens, p.min) THEN Throw(MsgAmountTooSmall(p.min))
  ELSE IF NumGt(tokens, p.max) THEN Throw(MsgAmountTooLarge(p.max))
  ELSE IF ~isValidComment(comment, p.commentAllowed)
  THEN Throw(MsgCommentTooLong(p.commentAllowed))
  ELSE Get(p.callback \o <<"?amount=", NumStr(TimesThousand(tokens))>>
           \o (IF Truthy(comment)
               THEN <<"&comment=">> \o encodeURIComponent(comment.s) ELSE <<>>))

requestInvoiceWithServiceParams ==
  /\ pc = "idle"
  /\ \E o \in WspOptions :
    /\ Begin("part_001", "requestInvoiceWithServiceParams", o)
    /\ params' = Undef
    /\ IF ~Truthy(o.params)
       THEN Finish(Err(MsgParamsRequired)) /\ http' = <<>> /\ lib' = <<>>
       ELSE IF ~isValidAmount(o.tokens)
       THEN Finish(Err(MsgTokens)) /\ http' = <<>> /\ lib' = <<>>
       ELSE IF IsPosParams(o.params)
       THEN LET step == BoundsCheck(o.params, o.tokens, o.comment) IN
            IF step.kind = "throw"
            THEN Finish(Err(step.msg)) /\ http' = <<>> /\ lib' = <<>>
            ELSE AwaitHttp("wsp_invoice", <<>>, step.url, TimeoutOption(o)) /\ lib' = <<>>
       ELSE AwaitLib("wsp_lib", <<>>, "requestInvoiceWithServiceParams", o, TRUE)
            /\ http' = <<>>

\* the catch block of requestInvoice
InvoiceCatch(msg) ==
  IF \/ Includes(msg, PatAmountTooSmall)
     \/ Includes(msg, PatAmountTooLarge)
     \/ Includes(msg, PatCommentTooLong)
  THEN Err(msg)
  ELSE Err(<<"POS invoice request failed: ">> \o msg)

requestInvoice ==
  /\ pc = "idle"
  /\ \E o \in InvoiceOptions :
    /\ Begin("part_001", "requestInvoice", o)
    /\ params' = Undef
    /\ IF Len(o.lnUrlOrAddress) = 0
       THEN Finish(Err(MsgAddressRequired)) /\ http' = <<>> /\ lib' = <<>>
       ELSE IF ~isValidAmount(o.tokens)
       THEN Finish(Err(MsgTokens)) /\ http' = <<>> /\ lib' = <<>>
       ELSE IF ~o.posMode \/ ~Includes(o.lnUrlOrAddress, <<"@">>)
       THEN AwaitLib("ri_lib", <<>>, "requestInvoice", o, TRUE) /\ http' = <<>>
       ELSE LET step == PspDiscovery(o.lnUrlOrAddress) IN
            IF step.kind = "throw"
            THEN Finish(InvoiceCatch(PspCatch(step.msg).msg)) /\ http' = <<>> /\ lib' = <<>>
            ELSE AwaitHttp("ri_discovery", <<>>, step.url, TimeoutOption(o)) /\ lib' = <<>>


(***************************************************************************)
(* part_001: the operations after their awaits                             *)
(***************************************************************************)
\* requestInvoice after the discovery answer: amount and comment checks, then
\* the invoice request
InvoiceAfterParams(p, o) ==
  LET step == BoundsCheck(p, o.tokens, o.comment) IN
  IF step.kind = "throw" THEN Throw(InvoiceCatch(step.msg).msg) ELSE step

\* requestInvoice after the invoice answer
InvoiceResult(p, answer) ==
  IF answer.kind = "throw" THEN InvoiceCatch(answer.msg)
  ELSE IF answer.data.status # "OK"
  THEN InvoiceCatch(<<"Invoice request failed: ">> \o
                    (IF Len(answer.data.reason) > 0 THEN answer.data.reason
                     ELSE <<"Unknown error">>))
  ELSE Ok([t |-> "obj",
           invoice |-> answer.data.pr,
           params |-> p,
           successAction |-> IF Truthy(answer.data.successAction)
                             THEN answer.data.successAction ELSE Null,
           rawData |-> answer.data,
           hasValidAmount |-> TRUE,
           hasValidDescriptionHash |-> TRUE,
           validatePreimage |-> TRUE])

\* requestInvoiceWithServiceParams after the invoice answer (no try block)
WspResult(answer) ==
  IF answer.kind = "throw" THEN Err(answer.msg)
  ELSE Ok([t |-> "obj",
           invoice |-> answer.data.pr,
           successAction |-> IF Truthy(answer.data.successAction)
                             THEN answer.data.successAction ELSE Null,
           rawData |-> answer.data])

\* requestPayServiceParams in POS mode and then, with the record it returned,
\* requestInvoiceWithServiceParams on its POS branch, for the same provider
\* answers; pending while the invoice answer is not at hand
TwoStepOutcome(o, answers) ==
  LET psp == PspResume(o.lnUrlOrAddress, answers[1]) IN
  IF psp.kind = "error" THEN psp
  ELSE LET step == BoundsCheck(psp.val, o.tokens, o.comment) IN
       IF step.kind = "throw" THEN Err(step.msg)
       ELSE IF Len(answers) < 2 THEN Pending
       ELSE WspResult(answers[2])

\* the operation resumes from its discovery request
DiscoveryResume(answer) ==
  LET psp == PspResume(opts.lnUrlOrAddress, answer) IN
  /\ received' = Append(received, answer)
  /\ IF await = "psp_discovery"
     THEN Finish(psp) /\ UNCHANGED <<params, http>>
     ELSE IF psp.kind = "error"
     THEN Finish(InvoiceCatch(psp.msg)) /\ UNCHANGED <<params, http>>
     ELSE LET step == InvoiceAfterParams(psp.val, opts) IN
          /\ params' = psp.val
          /\ IF step.kind = "throw"
             THEN Finish(Err(step.msg)) /\ UNCHANGED http
             ELSE AwaitHttp("ri_invoice", http, step.url, TimeoutOption(opts))
  /\ UNCHANGED <<impl, op, opts, lib, would, arg, given, calls>>

\* the operation resumes from its invoice request
InvoiceResume(answer) ==
  /\ received' = Append(received, answer)
  /\ IF await = "wsp_invoice" THEN Finish(WspResult(answer))
     ELSE Finish(InvoiceResult(params, answer))
  /\ UNCHANGED <<impl, op, opts, params, http, lib, would, arg, given, calls>>

\* httpClient.get: the response and its body can only be read once fetch has
\* resolved, which clears the timer; a network failure can come at any time
AnswerPossible(answer) ==
  (answer.kind = "data" \/ answer.msg = HttpStatusFailure) => timer = "cleared"

\* httpClient.get: fetch resolves with the response headers, clearTimeout
ResponseArrives ==
  /\ pc = "http"
  /\ timer = "armed"
  /\ timer' = "cleared"
  /\ UNCHANGED <<impl, op, opts, pc, await, params, http, received, lib, would,
                 outcome, arg, given, calls>>

\* httpClient.get: `Request timeout after ${timeout}ms`
MsgTimeout(timeout) == <<"Request timeout after ", NumStr(timeout), "ms">>

\* httpClient.get: the timer fires, controller.abort() makes fetch reject with
\* an AbortError, which the catch turns into the timeout error
TimerFires ==
  /\ pc = "http"
  /\ timer = "armed"
  /\ LET answer == Thrown(MsgTimeout(ClientTimeout(http[Len(http)].timeout))) IN
     IF await \in {"psp_discovery", "ri_discovery"}
     THEN DiscoveryResume(answer) ELSE InvoiceResume(answer)

DiscoveryReturns ==
  /\ pc = "http"
  /\ await \in {"psp_discovery", "ri_discovery"}
  /\ \E answer \in DiscoveryAnswers :
       AnswerPossible(answer) /\ DiscoveryResume(answer)

InvoiceReturns ==
  /\ pc = "http"
  /\ await \in {"wsp_invoice", "ri_invoice"}
  /\ \E answer \in InvoiceAnswers :
       AnswerPossible(answer) /\ InvoiceResume(answer)

(***************************************************************************)
(* part_002: the variant built on the wrapped library only                 *)
(***************************************************************************)
MaxCommentLength == 144

\* the catch blocks of part_002
Psp2Catch(msg, posMode) ==
  IF Includes(msg, <<"is required">>) \/ Includes(msg, <<"Invalid">>) THEN Err(msg)
  ELSE IF posMode THEN Err(<<"Failed to get POS service params: ">> \o msg)
  ELSE Err(<<"Failed to get service params: ">> \o msg)

Wsp2Catch(msg) ==
  IF \/ Includes(msg, <<"is required">>)
     \/ Includes(msg, <<"must be">>)
     \/ Includes(msg, <<"too small">>)
     \/ Includes(msg, <<"too large">>)
     \/ Includes(msg, <<"too long">>)
  THEN Err(msg)
  ELSE Err(<<"Invoice request failed: ">> \o msg)

Invoice2Catch(msg, posMode) ==
  IF \/ Includes(msg, <<"is required">>)
     \/ Includes(msg, <<"must be">>)
     \/ Includes(msg, <<"Invalid">>)
     \/ Includes(msg, <<"too long">>)
  THEN Err(msg)
  ELSE IF posMode THEN Err(<<"POS invoice request failed: ">> \o msg)
  ELSE Err(<<"Invoice request failed: ">> \o msg)

\* the address handed to the wrapped library
Psp2Address(address, posMode) ==
  IF posMode /\ StartsWith(address, <<"http">>)
  THEN address \o (IF Includes(address, <<"?">>) THEN <<"&pos=true">> ELSE <<"?pos=true">>)
  ELSE address

\* { lnUrlOrAddress, onionAllowed, fetchGet }
Psp2Args(o) ==
  WithTransport(Options(Psp2Address(o.lnUrlOrAddress, o.posMode), Undef, Undef, FALSE, Undef),
                o.fetchGet, Undef)

\* params.posMode = options.posMode || false on the library's record
Psp2Result(answer, posMode) ==
  IF answer.kind = "error" THEN Psp2Catch(answer.msg, posMode)
  ELSE Ok(("posMode" :> posMode) @@ answer.val)

\* the checks of requestInvoiceWithServiceParams before its library call
Wsp2Check(p, tokens, comment) ==
  IF ~Truthy(p) THEN Throw(MsgParamsRequired)
  ELSE IF ~(tokens.t = "num" /\ tokens.m % 1000 = 0) \/ ~NumGt(tokens, Num(0))
  THEN Throw(MsgTokens)
  ELSE IF Truthy(comment) /\ comment.t # "str" THEN Throw(MsgCommentString)
  ELSE IF NumLt(tokens, p.min) THEN Throw(MsgAmountTooSmall(p.min))
  ELSE IF NumGt(tokens, p.max) THEN Throw(MsgAmountTooLarge(p.max))
  ELSE IF Truthy(comment) /\ NumGt(Whole(Len(comment.s)), p.commentAllowed)
  THEN Throw(MsgCommentTooLong(p.commentAllowed))
  ELSE Get(<<>>)

Wsp2Args(p, tokens, comment) == Options(<<>>, tokens, comment, FALSE, p)

requestPayServiceParams2 ==
  /\ pc = "idle"
  /\ \E o \in PspOptions :
    /\ Begin("part_002", "requestPayServiceParams", o)
    /\ params' = Undef
    /\ http' = <<>>
    /\ IF Len(o.lnUrlOrAddress) = 0
       THEN Finish(Err(MsgAddressRequired)) /\ lib' = <<>>
       ELSE IF ~Includes(o.lnUrlOrAddress, <<"@">>)
       THEN Finish(Err(MsgInvalidAddress)) /\ lib' = <<>>
       ELSE AwaitLib("psp2_lib", <<>>, "requestPayServiceParams", Psp2Args(o), FALSE)

requestInvoiceWithServiceParams2 ==
  /\ pc = "idle"
  /\ \E o \in WspOptions :
    /\ Begin("part_002", "requestInvoiceWithServiceParams", o)
    /\ params' = Undef
    /\ http' = <<>>
    /\ LET step == Wsp2Check(o.params, o.tokens, o.comment) IN
       IF step.kind = "throw" THEN Finish(Err(step.msg)) /\ lib' = <<>>
       ELSE AwaitLib("wsp2_lib", <<>>, "requestInvoiceWithServiceParams",
                     Wsp2Args(o.params, o.tokens, o.comment), FALSE)

requestInvoice2 ==
  /\ pc = "idle"
  /\ \E o \in InvoiceOptions :
    /\ Begin("part_002", "requestInvoice", o)
    /\ params' = Undef
    /\ http' = <<>>
    /\ IF Len(o.lnUrlOrAddress) = 0
       THEN Finish(Err(MsgAddressRequired)) /\ lib' = <<>>
       ELSE IF ~(o.tokens.t = "num" /\ o.tokens.m % 1000 = 0) \/ ~NumGt(o.tokens, Num(0))
       THEN Finish(Err(MsgTokens)) /\ lib' = <<>>
       ELSE IF Truthy(o.comment) /\ o.comment.t # "str"
       THEN Finish(Err(MsgCommentString)) /\ lib' = <<>>
       ELSE IF Truthy(o.comment) /\ Len(o.comment.s) > MaxCommentLength
       THEN Finish(Err(MsgCommentTooLong(Whole(MaxCommentLength)))) /\ lib' = <<>>
       ELSE IF ~Includes(o.lnUrlOrAddress, <<"@">>)
       THEN Finish(Err(MsgInvalidAddress)) /\ lib' = <<>>
       ELSE AwaitLib("ri2_psp_lib", <<>>, "requestPayServiceParams", Psp2Args(o), FALSE)

\* requestInvoice of part_002 once both inner calls have returned
Invoice2Result(p, o, inv) ==
  Ok([t |-> "obj",
      invoice |-> inv.invoice,
      params |-> p,
      successAction |-> inv.successAction,
      rawData |-> inv.rawData,
      hasValidAmount |-> NumLe(p.min, o.tokens) /\ NumLe(o.tokens, p.max),
      hasValidDescriptionHash |-> TRUE,
      validatePreimage |-> TRUE])

\* metadata.find(entry => Array.isArray(entry) && entry.length >= 2 &&
\*               entry[0] === "text/plain")
RECURSIVE FindTextEntry2(_, _)
FindTextEntry2(list, i) ==
  IF i > Len(list) THEN Undef
  ELSE IF IsArray(list[i]) /\ Len(list[i].v) >= 2 /\ Element(list[i], 1) = TextPlain
  THEN list[i]
  ELSE FindTextEntry2(list, i + 1)

parseDescription2(metadata) ==
  IF ~Truthy(metadata) \/ ~IsArray(metadata) THEN Str(<<"Payment">>)
  ELSE LET textEntry == FindTextEntry2(metadata.v, 1) IN
       IF textEntry # Undef THEN Element(textEntry, 2) ELSE Str(<<"Payment">>)

\* metadata.find(entry => Array.isArray(entry) && entry.length >= 2 &&
\*               entry[0].startsWith("image/")): calling startsWith on a
\* first element that is not a text raises a TypeError
RECURSIVE FindImageEntry2(_, _)
FindImageEntry2(list, i) ==
  IF i > Len(list) THEN Ok(Undef)
  ELSE IF ~IsArray(list[i]) \/ Len(list[i].v) < 2 THEN FindImageEntry2(list, i + 1)
  ELSE IF Element(list[i], 1).t # "str"
  THEN Err(<<"TypeError: ", "Cannot read properties of null (reading 'startsWith')">>)
  ELSE IF StartsWith(Element(list[i], 1).s, <<"image/">>) THEN Ok(list[i])
  ELSE FindImageEntry2(list, i + 1)

\* the outcome of extractImage: the value returned, or the error raised
extractImage2(metadata) ==
  IF ~Truthy(metadata) \/ ~IsArray(metadata) THEN Ok(Str(<<>>))
  ELSE LET imageEntry == FindImageEntry2(metadata.v, 1) IN
       IF imageEntry.kind = "error" THEN imageEntry
       ELSE IF imageEntry.val # Undef THEN Ok(Element(imageEntry.val, 2))
       ELSE Ok(Str(<<>>))

\* sha256(...).digest("hex"), the whole digest
Sha256Hex(text) == [t |-> "digest", alg |-> "sha256", input |-> text, hexLen |-> 64]

\* the outcome of calculateMetadataHash: "" for a falsy argument, the digest
\* of JSON.stringify for an array (which raises for a cyclic one), the
\* digest of String(metadata) otherwise
calculateMetadataHash2(metadata) ==
  IF ~Truthy(metadata) THEN Ok(Str(<<>>))
  ELSE IF metadata.t = "list" \/ metadata = CyclicArray
  THEN LET metadataString == JsonStringify(metadata) IN
       IF metadataString.kind = "throw" THEN Err(<<"TypeError: ">> \o metadataString.msg)
       ELSE Ok(Sha256Hex(metadataString.data))
  ELSE IF metadata.t = "str" THEN Ok(Sha256Hex(metadata))
  ELSE Ok(Sha256Hex(Str(<<"[object Object]">>)))

(***************************************************************************)
(* The wrapped library answers                                             *)
(***************************************************************************)
\* the library is a function of what it is asked: asked what the caller asked,
\* it gives the answer fixed for this call
LibAnswerSet(call) ==
  IF /\ call.fn = op
     /\ call.args.lnUrlOrAddress = opts.lnUrlOrAddress
     /\ call.args.tokens = opts.tokens
     /\ call.args.comment = opts.comment
     /\ call.args.params = opts.params
  THEN {would}
  ELSE LibAnswers(call.fn, call.args)

LibraryReturns ==
  /\ pc = "lib"
  /\ \E answer \in LibAnswerSet(lib[Len(lib)]) :
       CASE await \in {"psp_lib", "ri_lib", "wsp_lib"} ->
              Finish(answer) /\ UNCHANGED <<params, lib>>
         [] await = "psp2_lib" ->
              Finish(Psp2Result(answer, opts.posMode)) /\ UNCHANGED <<params, lib>>
         [] await = "wsp2_lib" ->
              /\ Finish(IF answer.kind = "error" THEN Wsp2Catch(answer.msg) ELSE answer)
              /\ UNCHANGED <<params, lib>>
         [] await = "ri2_psp_lib" ->
              LET psp == Psp2Result(answer, opts.posMode) IN
              IF psp.kind = "error"
              THEN Finish(Invoice2Catch(psp.msg, opts.posMode)) /\ UNCHANGED <<params, lib>>
              ELSE LET step == Wsp2Check(psp.val, opts.tokens, opts.comment) IN
                   /\ params' = psp.val
                   /\ IF step.kind = "throw"
                      THEN Finish(Invoice2Catch(step.msg, opts.posMode)) /\ UNCHANGED lib
                      ELSE AwaitLib("ri2_wsp_lib", lib, "requestInvoiceWithServiceParams",
                                    Wsp2Args(psp.val, opts.tokens, opts.comment), FALSE)
         [] await = "ri2_wsp_lib" ->
              /\ IF answer.kind = "error"
                 THEN Finish(Invoice2Catch(Wsp2Catch(answer.msg).msg, opts.posMode))
                 ELSE Finish(Invoice2Result(params, opts, answer.val))
              /\ UNCHANGED <<params, lib>>
  /\ UNCHANGED <<impl, op, opts, http, received, would, arg, given, calls>>

(***************************************************************************)
(* The metadata helpers called on their own                                *)
(***************************************************************************)
\* a synchronous call: it returns or raises at once
HelperReturn(i, name, out) ==
  /\ impl' = i
  /\ op' = name
  /\ Finish(out)
  /\ UNCHANGED <<opts, params, http, received, lib, would, arg, given, calls>>

parseDescriptionCall ==
  /\ pc = "idle"
  /\ HelperReturn("part_001", "parseDescription", Ok(parseDescription(arg)))

extractImageCall ==
  /\ pc = "idle"
  /\ HelperReturn("part_001", "extractImage", Ok(extractImage(arg)))

parseDescriptionCall2 ==
  /\ pc = "idle"
  /\ HelperReturn("part_002", "parseDescription", Ok(parseDescription2(arg)))

extractImageCall2 ==
  /\ pc = "idle"
  /\ HelperReturn("part_002", "extractImage", extractImage2(arg))

calculateMetadataHashCall ==
  /\ pc = "idle"
  /\ HelperReturn("part_001", "calculateMetadataHash", Ok(calculateMetadataHash(arg)))

calculateMetadataHashCall2 ==
  /\ pc = "idle"
  /\ HelperReturn("part_002", "calculateMetadataHash", calculateMetadataHash2(arg))

(***************************************************************************)
(* Specification                                                           *)
(***************************************************************************)
Init ==
  /\ impl = "part_001"
  /\ op = "none"
  /\ opts = Options(<<>>, Undef, Undef, FALSE, Undef)
  /\ pc = "idle"
  /\ await = "none"
  /\ params = Undef
  /\ http = <<>>
  /\ timer = "none"
  /\ received = <<>>
  /\ lib = <<>>
  /\ would = Pending
  /\ outcome = Pending
  /\ arg = Undef
  /\ given = Options(<<>>, Undef, Undef, FALSE, Undef)
  /\ calls = NoCalls

Next ==
  \/ requestPayServiceParams
  \/ requestInvoiceWithServiceParams
  \/ requestInvoice
  \/ ResponseArrives
  \/ TimerFires
  \/ DiscoveryReturns
  \/ InvoiceReturns
  \/ requestPayServiceParams2
  \/ requestInvoiceWithServiceParams2
  \/ requestInvoice2
  \/ LibraryReturns

Spec == Init /\ [][Next]_vars

\* the event loop runs a timer that is due; nothing obliges an endpoint or
\* the wrapped library to answer
LiveSpec == Spec /\ WF_vars(TimerFires)

\* the helpers are pure: their argument is any of the bounded inputs
HelperInit ==
  /\ impl = "part_001"
  /\ op = "none"
  /\ opts = Options(<<>>, Undef, Undef, FALSE, Undef)
  /\ pc = "idle"
  /\ await = "none"
  /\ params = Undef
  /\ http = <<>>
  /\ timer = "none"
  /\ received = <<>>
  /\ lib = <<>>
  /\ would = Pending
  /\ outcome = Pending
  /\ arg \in MetadataInputs
  /\ given = Options(<<>>, Undef, Undef, FALSE, Undef)
  /\ calls = NoCalls

HelperNext ==
  \/ parseDescriptionCall
  \/ extractImageCall
  \/ parseDescriptionCall2
  \/ extractImageCall2
  \/ calculateMetadataHashCall
  \/ calculateMetadataHashCall2

HelperSpec == HelperInit /\ [][HelperNext]_vars

(***************************************************************************)
(* Two calls of httpClient.get in flight at once.  The client is one       *)
(* module-level object without fields; every call of get makes its own     *)
(* AbortController and its own timer.                                      *)
(***************************************************************************)
opVars ==
  <<impl, op, opts, pc, await, params, http, timer, received, lib, would,
    outcome, arg, given>>

\* options.timeout of a call of get: absent or five seconds
ClientTimeouts == {Undef, Whole(5000)}

\* what the network has in store for a request: a failure of fetch, a
\* response with a failure status, a response with a JSON body, or nothing
ClientAnswers ==
  {Thrown(m) : m \in HttpFailures}
  \cup {Data(d) : d \in RawDataValues \ {Undef}}
  \cup {NoAnswer}

\* variant: one controller for all calls, abort() reaches every fetch under way
Abort_shared(c, cs) ==
  [k \in CallIds |->
     IF cs[k].phase = "fetch" THEN [cs[k] EXCEPT !.aborted = TRUE] ELSE cs[k]]

\* controller.abort() of call c: the controller was made by this call
Abort(c, cs) == [cs EXCEPT ![c].aborted = TRUE]

\* get(url, options): timeout, new AbortController, setTimeout, fetch
ClientGet(c) ==
  /\ calls[c].phase = "idle"
  /\ \E t \in ClientTimeouts, f \in ClientAnswers :
       calls' = [calls EXCEPT ![c] =
                   [phase |-> "fetch", timeout |-> ClientTimeout(t), fate |-> f,
                    timer |-> "armed", aborted |-> FALSE, result |-> Pending]]
  /\ UNCHANGED opVars

\* fetch resolves: clearTimeout, then the status test
ClientFetchResolves(c) ==
  /\ calls[c].phase = "fetch"
  /\ ~calls[c].aborted
  /\ calls[c].fate.kind = "data" \/ calls[c].fate = Thrown(HttpStatusFailure)
  /\ calls' = [calls EXCEPT ![c] =
                IF calls[c].fate.kind = "data"
                THEN [@ EXCEPT !.phase = "body", !.timer = "cleared"]
                ELSE [@ EXCEPT !.phase = "done", !.timer = "cleared",
                               !.result = Err(HttpStatusFailure)]]
  /\ UNCHANGED opVars

\* fetch rejects for a reason of the network: clearTimeout, throw error
ClientFetchFails(c) ==
  /\ calls[c].phase = "fetch"
  /\ ~calls[c].aborted
  /\ calls[c].fate = Thrown(NetworkFailure)
  /\ calls' = [calls EXCEPT ![c] =
                [@ EXCEPT !.phase = "done", !.timer = "cleared",
                          !.result = Err(NetworkFailure)]]
  /\ UNCHANGED opVars

\* the timer of call c fires: () => controller.abort()
ClientTimerFires(c) ==
  /\ calls[c].phase = "fetch"
  /\ calls[c].timer = "armed"
  /\ calls' = Abort(c, [calls EXCEPT ![c].timer = "fired"])
  /\ UNCHANGED opVars

\* fetch rejects with an AbortError because its signal is aborted
ClientAborted(c) ==
  /\ calls[c].phase = "fetch"
  /\ calls[c].aborted
  /\ calls' = [calls EXCEPT ![c] =
                [@ EXCEPT !.phase = "done",
                          !.result = Err(MsgTimeout(calls[c].timeout))]]
  /\ UNCHANGED opVars

\* response.json() resolves: return { data }
ClientBodyArrives(c) ==
  /\ calls[c].phase = "body"
  /\ calls' = [calls EXCEPT ![c] =
                [@ EXCEPT !.phase = "done", !.result = Ok(calls[c].fate.data)]]
  /\ UNCHANGED opVars

PairNext ==
  \/ \E c \in CallIds : ClientGet(c)
  \/ \E c \in CallIds : ClientFetchResolves(c)
  \/ \E c \in CallIds : ClientFetchFails(c)
  \/ \E c \in CallIds : ClientTimerFires(c)
  \/ \E c \in CallIds : ClientAborted(c)
  \/ \E c \in CallIds : ClientBodyArrives(c)

PairSpec == Init /\ [][PairNext]_vars


(***************************************************************************)
(* Properties                                                              *)
(***************************************************************************)
Done == pc = "done"
IsPsp == op = "requestPayServiceParams"
IsInvoice == op = "requestInvoice"
IsWsp == op = "requestInvoiceWithServiceParams"
HasAt(address) == Includes(address, <<"@">>)
PositiveInteger(v) == v.t = "num" /\ v.m > 0 /\ v.m % 1000 = 0
AmountError(m) == Includes(m, PatAmountTooSmall) \/ Includes(m, PatAmountTooLarge)

\* C1: requestPayServiceParams with posMode off, or with an address without
\* '@', sends no HTTP request of its own and ends with exactly the outcome the
\* wrapped library has for the same options (an address being given).
C1_DelegatesUnchanged ==
  (IsPsp /\ Len(opts.lnUrlOrAddress) > 0
         /\ (~opts.posMode \/ ~HasAt(opts.lnUrlOrAddress))) =>
    /\ http = <<>>
    /\ Done => outcome = would

\* C2: requestInvoice without posMode returns the wrapped library's result
\* whenever the library accepts the options, and fails whenever it fails.
C2_DropInRequestInvoice ==
  (Done /\ IsInvoice /\ ~opts.posMode) =>
    /\ would.kind = "ok" => outcome = would
    /\ would.kind = "error" => outcome.kind = "error"

\* C3: for any params record, requestInvoiceWithServiceParams fails with
\* 'Amount too small' carrying min when the amount is below min, and with
\* 'Amount too large' carrying max when it is above max (the amount being a
\* positive integer and the comment absent or a text).
C3_OutOfBoundsRejected ==
  (Done /\ IsWsp /\ Truthy(opts.params) /\ PositiveInteger(opts.tokens)
        /\ (~Truthy(opts.comment) \/ opts.comment.t = "str")) =>
    /\ NumLt(opts.tokens, opts.params.min) =>
         outcome = Err(MsgAmountTooSmall(opts.params.min))
    /\ (~NumLt(opts.tokens, opts.params.min) /\ NumGt(opts.tokens, opts.params.max)) =>
         outcome = Err(MsgAmountTooLarge(opts.params.max))

\* C4: with min <= amount <= max, requestInvoiceWithServiceParams never ends
\* with an 'Amount too small' or 'Amount too large' error, whatever the
\* provider answers.
C4_InBoundsNoAmountError ==
  (Done /\ IsWsp /\ Truthy(opts.params) /\ PositiveInteger(opts.tokens)
        /\ NumLe(opts.params.min, opts.tokens) /\ NumLe(opts.tokens, opts.params.max)) =>
    ~(outcome.kind = "error" /\ AmountError(outcome.msg))

\* C4 witness: an amount equal to min is sent to the provider, the provider
\* answers with an error status and the reason 'Amount too small', and the
\* operation still does not end with an amount error.
C4_Witness ==
  /\ Done /\ IsWsp /\ impl = "part_001"
  /\ Truthy(opts.params)
  /\ opts.tokens = opts.params.min
  /\ NumLe(opts.tokens, opts.params.max)
  /\ Len(received) = 1
  /\ received[1].kind = "data"
  /\ received[1].data.reason = PatAmountTooSmall
  /\ outcome.kind = "ok"

\* C5: requestInvoiceWithServiceParams fails with 'Comment too long' carrying
\* commentAllowed whenever a non-empty comment is longer than commentAllowed,
\* and never with that error for an absent, empty or short enough comment.
C5_CommentLength ==
  (Done /\ IsWsp /\ Truthy(opts.params) /\ PositiveInteger(opts.tokens)
        /\ ~NumLt(opts.tokens, opts.params.min) /\ ~NumGt(opts.tokens, opts.params.max)) =>
    /\ (opts.comment.t = "str"
          /\ NumGt(Whole(Len(opts.comment.s)), opts.params.commentAllowed)) =>
         outcome = Err(MsgCommentTooLong(opts.params.commentAllowed))
    /\ (~Truthy(opts.comment)
          \/ (opts.comment.t = "str"
                /\ NumLe(Whole(Len(opts.comment.s)), opts.params.commentAllowed))) =>
         ~(outcome.kind = "error" /\ Includes(outcome.msg, PatCommentTooLong))

\* C6: requestInvoice and requestInvoiceWithServiceParams end with 'tokens
\* must be a positive integer' for every tokens value that is not a strictly
\* positive whole number (once the address or params is there), and never
\* for a strictly positive integer.
C6_TokensChecked ==
  (Done /\ (IsInvoice \/ IsWsp)) =>
    (outcome = Err(MsgTokens)) <=>
      /\ IsInvoice => Len(opts.lnUrlOrAddress) > 0
      /\ IsWsp => Truthy(opts.params)
      /\ ~PositiveInteger(opts.tokens)

\* C6 witness: a fractional amount is refused by requestInvoice.
C6_Witness ==
  /\ Done /\ IsInvoice /\ impl = "part_001"
  /\ Len(opts.lnUrlOrAddress) > 0
  /\ opts.tokens = Num(1500)
  /\ outcome = Err(MsgTokens)

\* C7: on the POS path requestPayServiceParams accepts only an address with
\* exactly one '@', a non-empty local part and a non-empty domain holding a
\* dot; any other address fails with 'Invalid Lightning address format' and
\* no discovery request is sent.
C7_AddressFormat ==
  (impl = "part_001" /\ IsPsp /\ opts.posMode /\ HasAt(opts.lnUrlOrAddress)
     /\ ~isValidLightningAddress(opts.lnUrlOrAddress)) =>
    /\ http = <<>>
    /\ Done => outcome = Err(MsgInvalidAddress)

\* C8: requestPayServiceParams with posMode on and an address without '@'
\* fails with an error whose message contains 'Invalid Lightning address'.
C8_NoAtSignRejected ==
  (Done /\ IsPsp /\ opts.posMode /\ Len(opts.lnUrlOrAddress) > 0
        /\ ~HasAt(opts.lnUrlOrAddress)) =>
    /\ outcome.kind = "error"
    /\ Includes(outcome.msg, PatInvalidLightningAddress)

\* the first input check of the running operation that fails, <<>> if none
FirstInputError ==
  CASE IsPsp -> IF Len(opts.lnUrlOrAddress) = 0 THEN MsgAddressRequired ELSE <<>>
    [] IsInvoice -> IF Len(opts.lnUrlOrAddress) = 0 THEN MsgAddressRequired
                    ELSE IF ~PositiveInteger(opts.tokens) THEN MsgTokens ELSE <<>>
    [] IsWsp -> IF ~Truthy(opts.params) THEN MsgParamsRequired
                ELSE IF ~PositiveInteger(opts.tokens) THEN MsgTokens ELSE <<>>
    [] OTHER -> <<>>

\* C9: when an input check (address present, tokens a positive integer,
\* params present) fails, the operation ends with that validation error, no
\* HTTP request has been issued and the wrapped library has not been called.
C9_ChecksBeforeNetwork ==
  FirstInputError # <<>> =>
    /\ Done
    /\ outcome = Err(FirstInputError)
    /\ http = <<>>
    /\ lib = <<>>

\* C9 witness: a call without params ends with 'params is required' and
\* nothing was sent.
C9_Witness ==
  /\ Done /\ IsWsp
  /\ opts.params = Undef
  /\ outcome = Err(MsgParamsRequired)
  /\ http = <<>> /\ lib = <<>>

\* C10: on the POS path of requestPayServiceParams a discovery response whose
\* status is not the success status never yields a params record; the
\* operation fails with a service error carrying the provider's reason when
\* there is one.
C10_NonSuccessStatusFails ==
  (Len(received) >= 1 /\ received[1].kind = "data" /\ (IsPsp \/ IsInvoice)
     /\ received[1].data.status # "OK") =>
    /\ Done
    /\ params = Undef
    /\ outcome.kind = "error"
    /\ Includes(outcome.msg,
                <<"Service error: ">> \o
                (IF Len(received[1].data.reason) > 0 THEN received[1].data.reason
                 ELSE <<"Invalid response">>))

\* C10 witness: the provider answers without a success status and with a
\* reason, and requestPayServiceParams fails carrying that reason.
C10_Witness ==
  /\ Done /\ IsPsp
  /\ Len(received) = 1
  /\ received[1].kind = "data"
  /\ received[1].data.status = "none"
  /\ received[1].data.reason = <<"Route not found">>
  /\ outcome.kind = "error"

\* the provider's answer to the invoice request of the POS path has arrived
PosInvoiceAnswered ==
  \/ IsWsp /\ Len(received) = 1
  \/ IsInvoice /\ Len(received) = 2

\* C11: a successful return on the POS path of requestInvoice or
\* requestInvoiceWithServiceParams means the provider's invoice response had
\* the status 'OK' and the returned invoice is its pr field; a response with
\* another status, or without pr, ends in an error.
C11_PosSuccessHasInvoice ==
  (Done /\ PosInvoiceAnswered /\ received[Len(received)].kind = "data") =>
    LET data == received[Len(received)].data IN
    /\ outcome.kind = "ok" =>
         /\ data.status = "OK"
         /\ data.pr.t = "str"
         /\ outcome.val.invoice = data.pr
    /\ (data.status # "OK" \/ data.pr.t # "str") => outcome.kind = "error"

\* millisatoshis to whole satoshis, rounding down
FloorSats(v) == Whole((v.m \div 1000) \div 1000)

\* C12: on the POS path the min and max of the record returned by
\* requestPayServiceParams are the provider's minSendable and maxSendable
\* integer-divided by 1000, hence whole numbers of satoshis.
C12_BoundsFloorDivided ==
  (Done /\ IsPsp /\ Len(received) = 1 /\ outcome.kind = "ok") =>
    LET data == received[1].data IN
    /\ data.minSendable.t = "num" => outcome.val.min = FloorSats(data.minSendable)
    /\ data.maxSendable.t = "num" => outcome.val.max = FloorSats(data.maxSendable)

\* C13: every record returned by requestPayServiceParams has min <= max
\* (on the POS path: for every accepted response with numeric bounds).
C13_MinAtMostMax ==
  (Done /\ IsPsp /\ outcome.kind = "ok"
     /\ (Len(received) = 1 =>
           /\ received[1].data.minSendable.t = "num"
           /\ received[1].data.maxSendable.t = "num")) =>
    NumLe(outcome.val.min, outcome.val.max)

\* C14: every HTTP call of the built-in client ends: an endpoint that has not
\* completely answered (headers and body) within the timeout gets the call
\* aborted, so a call that is in flight always leads to the end of the
\* operation.  (An endpoint may send its headers and then withhold the body:
\* the operation then waits in response.json() with its timer cleared.)
C14_EveryHttpCallEnds == (pc = "http") ~> Done

IsDiscoveryRequest(r) == Includes(r.url, <<"/.well-known/lnurlp/">>)
IsInvoiceRequest(r) == Includes(r.url, <<"?amount=">>)

\* C15: an operation issues at most two HTTP requests, one at a time: at
\* most one discovery request and at most one invoice request, the invoice
\* request only once the discovery answer has arrived and been accepted, and
\* nothing is sent again after a failure.
C15_AtMostTwoSequentialRequests ==
  /\ Len(http) <= 2
  /\ Len(http) = Len(received) + (IF pc = "http" THEN 1 ELSE 0)
  /\ Len(http) = 1 => IsDiscoveryRequest(http[1]) \/ IsInvoiceRequest(http[1])
  /\ Len(http) = 2 =>
       /\ IsDiscoveryRequest(http[1]) /\ ~IsInvoiceRequest(http[1])
       /\ IsInvoiceRequest(http[2]) /\ ~IsDiscoveryRequest(http[2])
       /\ received[1].kind = "data"
       /\ received[1].data.status = "OK"
       /\ params # Undef
  /\ \A i \in 1..Len(received) :
       (received[i].kind = "throw" \/ received[i].data.status # "OK") =>
         Len(http) = i /\ Done

\* C15 witness: requestInvoice has sent its discovery request, then its
\* invoice request, and returned.
C15_Witness ==
  /\ Done /\ IsInvoice
  /\ Len(http) = 2 /\ Len(received) = 2
  /\ outcome.kind = "ok"

\* the texts of the validation errors, up to the value they carry
ValidationTexts ==
  { MsgAddressRequired, MsgParamsRequired, MsgTokens, MsgInvalidAddress,
    <<"Amount ", "too small", ". Minimum: ">>,
    <<"Amount ", "too large", ". Maximum: ">>,
    <<"Comment ", "too long", ". Maximum: ">> }

\* C16: a validation error reaches the caller of every operation as the
\* check raised it: its text stands at the start of the message, with no
\* prefix in front, also when requestInvoice gets it from its inner
\* parameter resolution.
C16_ValidationUnwrapped ==
  (Done /\ outcome.kind = "error") =>
    \A text \in ValidationTexts :
      Includes(outcome.msg, text) => StartsWith(outcome.msg, text)

\* the prefixes that name the failed step
StepPrefixes ==
  { "Failed to get POS service params: ", "POS invoice request failed: ",
    "Invoice request failed: " }

\* C17: a transport error or a non-success provider status at an HTTP
\* boundary reaches the caller as an error that starts with the prefix of the
\* failed step and keeps the original message (the transport error's text, or
\* the provider's reason), in all three operations.
C17_TransportErrorsWrapped ==
  (Done /\ Len(received) >= 1
     /\ LET last == received[Len(received)] IN
        last.kind = "throw" \/ last.data.status # "OK") =>
    LET last == received[Len(received)] IN
    /\ outcome.kind = "error"
    /\ outcome.msg[1] \in StepPrefixes
    /\ Includes(outcome.msg, IF last.kind = "throw" THEN last.msg ELSE last.data.reason)

\* C18: when the caller supplies fetchGet, every request the call sends goes
\* through that function and none through the built-in client.
C18_CustomFetchUsed ==
  opts.fetchGet => \A i \in 1..Len(http) : http[i].via = "fetchGet"

\* the first position of a list whose entry satisfies P, 0 when there is none
FirstWhere(list, P(_)) ==
  LET hits == {i \in 1..Len(list) : P(list[i])} IN
  IF hits = {} THEN 0 ELSE CHOOSE i \in hits : \A j \in hits : i <= j

IsTextPlainEntry(e) == IsArray(e) /\ Element(e, 1) = TextPlain
IsImageEntry(e) ==
  /\ IsArray(e)
  /\ Element(e, 1).t = "str"
  /\ StartsWith(Element(e, 1).s, <<"image/">>)

\* C19: parseDescription (part_001) returns the payload of the first entry
\* of the list whose content type equals 'text/plain', returns 'Payment'
\* when there is no such entry or the argument is not a list, and never
\* raises.
C19_ParseDescription ==
  (Done /\ op = "parseDescription" /\ impl = "part_001") =>
    outcome =
      Ok(IF ~IsArray(arg) \/ FirstWhere(arg.v, IsTextPlainEntry) = 0
         THEN Str(<<"Payment">>)
         ELSE Element(arg.v[FirstWhere(arg.v, IsTextPlainEntry)], 2))

\* C19 witness: of two 'text/plain' entries the payload of the first one is
\* returned.
C19_Witness ==
  /\ Done /\ op = "parseDescription" /\ impl = "part_001"
  /\ arg = Arr(<<Arr(<<TextPlain, Str(<<"A">>)>>), Arr(<<TextPlain, Str(<<"B">>)>>)>>)
  /\ outcome = Ok(Str(<<"A">>))

\* every entry of the list that is itself a list has a type and a payload
WithPayloads(metadata) ==
  IsArray(metadata) =>
    \A i \in 1..Len(metadata.v) : IsArray(metadata.v[i]) => Len(metadata.v[i].v) = 2

\* C20: extractImage returns the payload of the first entry of the list
\* whose content type begins with 'image/', whatever the subtype, returns
\* the empty text when there is no such entry or the argument is not a list,
\* and never raises, also when the first element of an entry is not a text
\* (stated for lists whose entries all carry a payload).
C20_ExtractImage ==
  (Done /\ op = "extractImage" /\ WithPayloads(arg)) =>
    outcome =
      Ok(IF ~IsArray(arg) \/ FirstWhere(arg.v, IsImageEntry) = 0
         THEN Str(<<>>)
         ELSE Element(arg.v[FirstWhere(arg.v, IsImageEntry)], 2))

\* C21: calculateMetadataHash never raises and returns a digest for every
\* argument; for an argument that cannot be serialized (cyclic, undefined,
\* null) the digest is that of the empty text.
C21_MetadataHashTotal ==
  (Done /\ op = "calculateMetadataHash") =>
    /\ outcome.kind = "ok"
    /\ outcome.val.t = "digest"
    /\ arg \in {Undef, Null, CyclicArray, CyclicObject} =>
         outcome.val.input = Str(<<>>)

\* C22: no operation modifies the options object it is given, nor the params
\* record inside it: from the start of a call to its end, whether it returns
\* or fails, every field is what the caller passed, and a default (timeout)
\* shows only in what the operation hands to its HTTP client.
C22_OptionsUntouched ==
  pc # "idle" =>
    /\ opts = given
    /\ \A i \in 1..Len(http) :
         http[i].timeout = (IF given.timeout = Undef THEN Whole(DefaultTimeout)
                            ELSE given.timeout)

\* C22 witness: a call made without a timeout has sent its request with the
\* default of 30000 ms and ended, and its options still have no timeout.
C22_Witness ==
  /\ Done /\ IsPsp
  /\ given.timeout = Undef
  /\ Len(http) = 1
  /\ http[1].timeout = Whole(DefaultTimeout)
  /\ opts.timeout = Undef

\* the results a call of get can have when it is the only one: the answer the
\* network has for it, or the timeout error with its own timeout
AloneResults(call) ==
  {Err(MsgTimeout(call.timeout))}
  \cup (IF call.fate.kind = "data" THEN {Ok(call.fate.data)}
        ELSE IF call.fate.kind = "throw" THEN {Err(call.fate.msg)}
        ELSE {})

\* C23: two calls in flight share no state: under every interleaving a
\* call's signal is aborted only by its own timer, a call ends with the
\* timeout error only when its own timer has fired, and the result of each
\* call is one it can have alone, whatever the other call does.
C23_CallsIndependent ==
  \A c \in CallIds :
    /\ calls[c].aborted => calls[c].timer = "fired"
    /\ calls[c].phase = "done" =>
         /\ calls[c].result \in AloneResults(calls[c])
         /\ (calls[c].result = Err(MsgTimeout(calls[c].timeout)))
              <=> calls[c].timer = "fired"

\* C23 witness: one call has ended with its timeout error while the other,
\* started with another timeout, has had its response and is not aborted,
\* and then ended with its data.
C23_Witness ==
  /\ calls[1].phase = "done"
  /\ calls[1].result = Err(MsgTimeout(Whole(5000)))
  /\ calls[2].phase = "done"
  /\ calls[2].timeout = Whole(DefaultTimeout)
  /\ ~calls[2].aborted
  /\ calls[2].result.kind = "ok"

\* a result record the wrapper built itself: on the POS path of part_001
\* after the provider's invoice response, and in requestInvoice of part_002
WrapperBuiltResult ==
  /\ Done /\ outcome.kind = "ok"
  /\ \/ impl = "part_001" /\ PosInvoiceAnswered
     \/ impl = "part_002" /\ IsInvoice

HasTrue(record, field) ==
  field \in DOMAIN record /\ record[field] = TRUE

\* C24: every successful invoice result has the invoice of the provider's pr
\* field, the provider's successAction when one was sent, the raw provider
\* response, hasValidAmount and hasValidDescriptionHash both true, and a
\* validatePreimage that reports valid.
C24_InvoiceResultComplete ==
  WrapperBuiltResult =>
    /\ impl = "part_001" =>
         LET data == received[Len(received)].data IN
         /\ outcome.val.invoice = data.pr
         /\ Truthy(data.successAction) =>
              outcome.val.successAction = data.successAction
         /\ outcome.val.rawData = data
    /\ HasTrue(outcome.val, "hasValidAmount")
    /\ HasTrue(outcome.val, "hasValidDescriptionHash")
    /\ HasTrue(outcome.val, "validatePreimage")

\* a URL as its receiver reads it: the query starts at the first '?', its
\* parameters are separated by '&', a later '?' belongs to a value
QueryStarts == {"?amount=", "?id="}
Separators == {"&amount=", "&comment="}

KeyOf(token) ==
  CASE token \in {"?amount=", "&amount="} -> "amount"
    [] token = "&comment=" -> "comment"
    [] token = "?id=" -> "id"
    [] OTHER -> "none"

QueryIndex(url) ==
  LET starts == {i \in 1..Len(url) : url[i] \in QueryStarts} IN
  IF starts = {} THEN 0 ELSE CHOOSE i \in starts : \A j \in starts : i <= j

\* the positions of the URL where a parameter begins
KeyPositions(url) ==
  LET q == QueryIndex(url) IN
  IF q = 0 THEN {}
  ELSE {q} \cup {i \in (q + 1)..Len(url) : url[i] \in Separators}

UrlPath(url) ==
  IF QueryIndex(url) = 0 THEN url ELSE SubSeq(url, 1, QueryIndex(url) - 1)

QueryKeys(url) == {KeyOf(url[i]) : i \in KeyPositions(url)}

\* the value of the parameter that begins at position i
ValueAt(url, i) ==
  LET later == {j \in KeyPositions(url) : j > i}
      end == IF later = {} THEN Len(url) + 1
             ELSE CHOOSE j \in later : \A k \in later : j <= k
  IN SubSeq(url, i + 1, end - 1)

\* the value of the first parameter of that name, undefined when there is none
QueryParam(url, key) ==
  LET at == {i \in KeyPositions(url) : KeyOf(url[i]) = key} IN
  IF at = {} THEN Undef
  ELSE Str(ValueAt(url, CHOOSE i \in at : \A j \in at : i <= j))

UrlDecode(s) == [i \in 1..Len(s) |-> IF s[i] = "%20" THEN " " ELSE s[i]]

\* the invoice request of the POS path is in the log, for this record
PosInvoiceSent ==
  /\ impl = "part_001"
  /\ \/ IsWsp /\ Len(http) = 1
     \/ IsInvoice /\ Len(http) = 2

PosRecord == IF IsWsp THEN opts.params ELSE params

\* C25: on the POS path the invoice request goes to the record's callback
\* and its query has, besides what the callback itself has, exactly: amount
\* = tokens x 1000, and comment = the URL-encoded comment if and only if a
\* non-empty comment was supplied.
C25_PosInvoiceQuery ==
  PosInvoiceSent =>
    LET url == http[Len(http)].url
        callback == PosRecord.callback
        comment == opts.comment
    IN /\ UrlPath(url) = UrlPath(callback)
       /\ QueryParam(url, "amount") = Str(<<ToString(opts.tokens.m)>>)
       /\ Truthy(comment) <=> QueryParam(url, "comment") # Undef
       /\ Truthy(comment) =>
            /\ UrlDecode(QueryParam(url, "comment").s) = comment.s
            /\ \A i \in 1..Len(QueryParam(url, "comment").s) :
                 QueryParam(url, "comment").s[i] # " "
       /\ QueryKeys(url) = QueryKeys(callback) \cup {"amount"}
                           \cup (IF Truthy(comment) THEN {"comment"} ELSE {})

\* the POS marker of a record: a raw provider response with the success
\* status and a callback on the provider's host
HasPosMarker(p) ==
  /\ p.t = "obj"
  /\ p.rawData # Undef
  /\ p.rawData.status = "OK"
  /\ \E i \in 1..Len(p.callback) : p.callback[i] = "bringin.xyz"

\* the amount is within the record's bounds and the comment within its limit
WithinLimits(p, tokens, comment) ==
  /\ ~NumLt(tokens, p.min)
  /\ ~NumGt(tokens, p.max)
  /\ Truthy(comment) =>
       comment.t = "str" /\ NumLe(Whole(Len(comment.s)), p.commentAllowed)

\* the call of requestInvoiceWithServiceParams passes its checks: a record
\* is given, tokens is a positive integer and, for a record with the POS
\* marker, amount and comment are within the record's limits
WspPassesValidation ==
  /\ opts.params # Undef
  /\ PositiveInteger(opts.tokens)
  /\ HasPosMarker(opts.params) =>
       WithinLimits(opts.params, opts.tokens, opts.comment)

\* C26: requestInvoiceWithServiceParams sends its own invoice request exactly
\* when the record has the POS marker, and otherwise calls the wrapped
\* library's requestInvoiceWithServiceParams with the caller's own options;
\* a call that passes validation takes exactly one of the two paths, a call
\* that does not takes neither.
C26_ExactlyOnePath ==
  (impl = "part_001" /\ IsWsp) =>
    IF WspPassesValidation
    THEN /\ HasPosMarker(opts.params) => Len(http) = 1 /\ lib = <<>>
         /\ ~HasPosMarker(opts.params) =>
              /\ http = <<>>
              /\ Len(lib) = 1
              /\ lib[1].fn = "requestInvoiceWithServiceParams"
              /\ lib[1].same
              /\ lib[1].args = given
    ELSE http = <<>> /\ lib = <<>> /\ outcome.kind = "error"

\* C26 witness: a call with a POS record has sent its own request and got its
\* result without the library being called.
C26_Witness ==
  /\ impl = "part_001" /\ IsWsp /\ Done
  /\ HasPosMarker(opts.params)
  /\ outcome.kind = "ok"
  /\ Len(http) = 1
  /\ lib = <<>>

\* C27: every record that requestPayServiceParams returns from its POS path
\* is recognised as a POS record by requestInvoiceWithServiceParams, whatever
\* callback URL the provider returned.
C27_PosRecordRecognised ==
  (Done /\ IsPsp /\ impl = "part_001" /\ Len(received) = 1
        /\ outcome.kind = "ok") =>
    IsPosParams(outcome.val)

\* C29: whenever requestInvoice in POS mode returns a result, tokens lies
\* within the bounds of the returned params (min <= tokens <= max) and a
\* supplied comment is no longer than its commentAllowed.
C29_ResultWithinBounds ==
  (WrapperBuiltResult /\ IsInvoice /\ opts.posMode) =>
    LET p == outcome.val.params IN
    /\ NumLe(p.min, opts.tokens)
    /\ NumLe(opts.tokens, p.max)
    /\ Truthy(opts.comment) =>
         /\ opts.comment.t = "str"
         /\ NumLe(Whole(Len(opts.comment.s)), p.commentAllowed)

\* the record against which the POS path checks amount and comment, once the
\* operation has it and has accepted tokens as a positive integer
PosChecked ==
  /\ impl = "part_001"
  /\ PositiveInteger(opts.tokens)
  /\ \/ IsWsp /\ HasPosMarker(opts.params)
     \/ IsInvoice /\ params # Undef

TooLong(comment, limit) ==
  /\ Truthy(comment)
  /\ comment.t = "str"
  /\ NumGt(Whole(Len(comment.s)), limit)

\* C30: on the POS path of requestInvoice and of
\* requestInvoiceWithServiceParams, when tokens is below min or above max or
\* the comment is longer than commentAllowed, the operation ends with the
\* validation error and no invoice request has been sent to the callback;
\* when amount and comment are both invalid the amount error is reported.
C30_NoRequestWhenInvalid ==
  PosChecked =>
    LET p == PosRecord
        tooSmall == NumLt(opts.tokens, p.min)
        tooLarge == NumGt(opts.tokens, p.max)
        tooLong == TooLong(opts.comment, p.commentAllowed)
    IN (tooSmall \/ tooLarge \/ tooLong) =>
         /\ Done
         /\ \A i \in 1..Len(http) : IsDiscoveryRequest(http[i])
         /\ Len(received) = Len(http)
         /\ outcome =
              Err(IF tooSmall THEN MsgAmountTooSmall(p.min)
                  ELSE IF tooLarge THEN MsgAmountTooLarge(p.max)
                  ELSE MsgCommentTooLong(p.commentAllowed))

\* C30 witness: requestInvoice got a record from the provider, found the
\* amount above max and the comment too long, and ended with the amount
\* error after the discovery request alone.
C30_Witness ==
  /\ PosChecked /\ IsInvoice /\ Done
  /\ NumGt(opts.tokens, params.max)
  /\ TooLong(opts.comment, params.commentAllowed)
  /\ outcome = Err(MsgAmountTooLarge(params.max))
  /\ Len(http) = 1

\* POS-mode requestInvoice has ended after the provider answered, and the
\* record of its first step, if there is one, has the POS marker
OneStepEnded ==
  /\ Done /\ impl = "part_001" /\ IsInvoice
  /\ Len(received) >= 1
  /\ params # Undef => HasPosMarker(params)

\* C28: for the same address, amount, comment and provider answers, POS-mode
\* requestInvoice and requestPayServiceParams followed by
\* requestInvoiceWithServiceParams both fail or both succeed, and when they
\* succeed they return the same invoice, successAction and raw response.
C28_OneStepIsTwoStep ==
  OneStepEnded =>
    LET two == TwoStepOutcome(opts, received) IN
    /\ outcome.kind = two.kind
    /\ outcome.kind = "ok" =>
         /\ outcome.val.invoice = two.val.invoice
         /\ outcome.val.successAction = two.val.successAction
         /\ outcome.val.rawData = two.val.rawData

====
